---------------------------- MODULE Spec2Model ----------------------------
(***************************************************************************)
(* Boosting Service API (src/main.py): the price calculator, order         *)
(* submission and testimonial listing handlers, as a state machine.        *)
(*                                                                         *)
(* Money.  The handler computes in IEEE-754 doubles.  Every value it       *)
(* holds BEFORE rounding is a multiple of 1/8 (rates are multiples of 0.5, *)
(* the quantity is an integer, 1.25 = 5/4), hence exactly representable,   *)
(* and is written here as an integer number of mills (1/1000).  Every      *)
(* value it RETURNS is round(x, 2), the double nearest to a two-decimal    *)
(* number, and is written here as that number of cents; DblOfCents gives   *)
(* the double itself (exponent and 53-bit significand) where the bits      *)
(* matter.                                                                 *)
(*                                                                         *)
(* Strings are sequences of one-character strings, so that str.lower() is  *)
(* modelled by what it does to each character.                             *)
(***************************************************************************)
EXTENDS Integers, Sequences, FiniteSets, TLC

VARIABLES
    PRICES,         \* module global: service key -> unit rate (mills)
    PRIORITY_MULT,  \* module global: rush multiplier, in hundredths
    STREAMING_FEE,  \* module global: flat streaming fee (mills)
    reqs,           \* the two /api/calculate requests the clients send
    resps,          \* the response to each, once it has been served
    wpc,            \* per worker: position inside calculate_price
    wreq,           \* per worker: the request being served
    wloc,           \* per worker: the frame's local variables
    wres,           \* per worker: the response produced
    store,          \* the document store: the documents created so far
    storeFault,     \* "none", or the error the store raises on every call
    createCalls,    \* number of create_document calls made so far
    orderReqs,      \* number of /api/orders requests handled so far
    exchange        \* the last /api/orders or /api/testimonials exchange

vars == <<PRICES, PRIORITY_MULT, STREAMING_FEE, reqs, resps, wpc, wreq, wloc, wres,
          store, storeFault, createCalls, orderReqs, exchange>>

priceVars == <<PRICES, PRIORITY_MULT, STREAMING_FEE>>
workerVars == <<wpc, wreq, wloc, wres>>
storeVars == <<store, storeFault, createCalls, orderReqs, exchange>>

---------------------------------------------------------------------------
(* Bounds of the model *)

\* largest quantity a request carries (besides ExampleQty)
MaxQty == 3
\* quantities start at -NegQty
NegQty == 1
\* number of concurrent calculate_price calls
NWorkers == 2
\* /api/orders requests handled in a run
MaxOrders == 3
\* limits of /api/testimonials run from -NegLimit to MaxLimit
MaxLimit == 4
NegLimit == 4
\* the quantity of the specification's worked example (leveling, 10)
ExampleQty == 10

---------------------------------------------------------------------------
(* Strings *)

UPPERCASE == <<"A","B","C","D","E","F","G","H","I","J","K","L","M",
               "N","O","P","Q","R","S","T","U","V","W","X","Y","Z">>
LOWERCASE == <<"a","b","c","d","e","f","g","h","i","j","k","l","m",
               "n","o","p","q","r","s","t","u","v","w","x","y","z">>

Chars == {UPPERCASE[i] : i \in 1..26} \cup {LOWERCASE[i] : i \in 1..26} \cup {"_"}

\* str.lower() on one character
LowerChar ==
    [c \in Chars |->
        IF \E i \in 1..26 : UPPERCASE[i] = c
        THEN LOWERCASE[CHOOSE i \in 1..26 : UPPERCASE[i] = c]
        ELSE c]

\* the lookup key taken as sent, .lower() forgotten
lower_missing(s) == s

\* only the first character lower-cased
lower_first_only(s) ==
    [i \in 1..Len(s) |-> IF i = 1 THEN LowerChar[s[i]] ELSE s[i]]

\* str.lower()
lower(s) == [i \in 1..Len(s) |-> LowerChar[s[i]]]

\* str.upper() on one character, used only to build mixed-case inputs
UpperChar ==
    [c \in Chars |->
        IF \E i \in 1..26 : LOWERCASE[i] = c
        THEN UPPERCASE[CHOOSE i \in 1..26 : LOWERCASE[i] = c]
        ELSE c]

upper(s) == [i \in 1..Len(s) |-> UpperChar[s[i]]]

capitalize(s) == [i \in 1..Len(s) |-> IF i = 1 THEN UpperChar[s[i]] ELSE s[i]]

k_exploration == <<"e","x","p","l","o","r","a","t","i","o","n">>
k_spiral_abyss == <<"s","p","i","r","a","l","_","a","b","y","s","s">>
k_leveling == <<"l","e","v","e","l","i","n","g">>
k_farming == <<"f","a","r","m","i","n","g">>
k_boss_runs == <<"b","o","s","s","_","r","u","n","s">>
k_unknown_x == <<"u","n","k","n","o","w","n","_","x">>

---------------------------------------------------------------------------
(* The pricing table and modifiers, src/main.py 77-86 *)

PRICES_INIT ==
    (k_exploration :> 5000) @@ (k_spiral_abyss :> 12000) @@
    (k_leveling :> 3500) @@ (k_farming :> 8000) @@ (k_boss_runs :> 6000)

PRIORITY_MULT_INIT == 125
STREAMING_FEE_INIT == 3000

---------------------------------------------------------------------------
(* Requests *)

ServiceInputs ==
    {k_exploration, k_spiral_abyss, k_leveling, k_farming, k_boss_runs,
     capitalize(k_exploration), upper(k_leveling),
     k_unknown_x, capitalize(k_unknown_x)}

Quantities == ((0 - NegQty)..MaxQty) \cup {ExampleQty}

\* class PriceRequest
PriceRequest ==
    [service : ServiceInputs, quantity : Quantities,
     priority : BOOLEAN, streaming : BOOLEAN]

---------------------------------------------------------------------------
(* Arithmetic *)

max(a, b) == IF a >= b THEN a ELSE b
min(a, b) == IF a <= b THEN a ELSE b

\* round(x, 2) of a double whose exact value is `mills`/1000: the result is
\* the two-decimal number nearest to the exact value, an exact tie going to
\* the even last digit (float.__round__ rounds the exact binary value
\* correctly).  Result in cents.
round2_half_up(mills) ==
    IF mills % 10 >= 5 THEN mills \div 10 + 1 ELSE mills \div 10

round2(mills) ==
    LET q == mills \div 10
        r == mills % 10
    IN  IF r > 5 THEN q + 1
        ELSE IF r < 5 THEN q
        ELSE IF q % 2 = 0 THEN q ELSE q + 1

\* base_price *= PRIORITY_MULT; exact, the product is a multiple of 1/8
TimesMult(mills, mult) == (mills * mult) \div 100

---------------------------------------------------------------------------
(* IEEE-754 binary64, the type of the three PriceResponse fields.          *)
(* A positive double is [exp, hi, lo]: its value is                        *)
(* (hi * 2^26 + lo) * 2^(exp - 52), with 2^26 <= hi < 2^27 and             *)
(* 0 <= lo < 2^26 (a 53-bit significand in two limbs).  Zero is DblZero.   *)

\* width of the low limb of the significand
LimbBits == 26

Pow2(n) == 2 ^ n

\* floor(log2(n)), n >= 1
RECURSIVE Log2(_)
Log2(n) == IF n < 2 THEN 0 ELSE 1 + Log2(n \div 2)

DblZero == [exp |-> 0, hi |-> 0, lo |-> 0]

\* n more binary digits of r/100 (0 <= r < 100), appended to q: long
\* division, half a limb of digits at a time
RECURSIVE DivBits(_, _, _)
DivBits(r, n, q) ==
    IF n = 0 THEN [q |-> q, r |-> r]
    ELSE LET m == IF n < LimbBits \div 2 THEN n ELSE LimbBits \div 2
             num == r * Pow2(m)
         IN  DivBits(num % 100, n - m, q * Pow2(m) + num \div 100)

\* carry out of the low limb, then out of the significand
DblNormalize(exp, hi, lo) ==
    LET hi1 == IF lo = Pow2(LimbBits) THEN hi + 1 ELSE hi
        lo1 == IF lo = Pow2(LimbBits) THEN 0 ELSE lo
    IN  IF hi1 = Pow2(LimbBits + 1)
        THEN [exp |-> exp + 1, hi |-> Pow2(LimbBits), lo |-> 0]
        ELSE [exp |-> exp, hi |-> hi1, lo |-> lo1]

\* The double that round(x, 2) returns when the rounded value is c cents:
\* the double nearest to c/100, ties to even.  For c = 0 and for
\* 1.00 <= c/100 < 2^27 (no price is below the lowest rate, 3.5).
DblOfCents(c) ==
    IF c = 0 THEN DblZero
    ELSE
      LET int == c \div 100
          frac == c % 100
          k == Log2(int)
          d1 == DivBits(frac, LimbBits - k, 0)
          d2 == DivBits(d1.r, LimbBits, 0)
          up == IF 2 * d2.r > 100 \/ (2 * d2.r = 100 /\ d2.q % 2 = 1)
                THEN 1 ELSE 0
      IN  DblNormalize(k, int * Pow2(LimbBits - k) + d1.q, d2.q + up)

\* x + y in double arithmetic, round to nearest even, for two non-negative
\* doubles whose exponents differ by at most LimbBits
DblAdd(x, y) ==
    IF y = DblZero THEN x
    ELSE IF x = DblZero THEN y
    ELSE
      LET a == IF x.exp >= y.exp THEN x ELSE y
          b == IF x.exp >= y.exp THEN y ELSE x
          d == a.exp - b.exp
          \* b's significand aligned to a's: limbs hiB, loB, and the
          \* d bits shifted out, rb
          hiB == b.hi \div Pow2(d)
          loB == (b.hi % Pow2(d)) * Pow2(LimbBits - d) + b.lo \div Pow2(d)
          rb == b.lo % Pow2(d)
          los == a.lo + loB
          lo1 == los % Pow2(LimbBits)
          hi1 == a.hi + hiB + los \div Pow2(LimbBits)
      IN  IF hi1 < Pow2(LimbBits + 1)
          THEN
            LET up == IF 2 * rb > Pow2(d) \/ (2 * rb = Pow2(d) /\ lo1 % 2 = 1)
                      THEN 1 ELSE 0
            IN  DblNormalize(a.exp, hi1, lo1 + up)
          ELSE
            LET hi2 == hi1 \div 2
                lo2 == (hi1 % 2) * Pow2(LimbBits - 1) + lo1 \div 2
                up == IF lo1 % 2 = 1 /\ (rb > 0 \/ lo2 % 2 = 1) THEN 1 ELSE 0
            IN  DblNormalize(a.exp + 1, hi2, lo2 + up)

---------------------------------------------------------------------------
(* POST /api/calculate *)

HTTP400 == [status |-> 400, detail |-> "Unknown service"]

PriceResponse(base_price, addons, total) ==
    [status |-> 200, base_price |-> base_price, addons |-> addons,
     total |-> total]

\* the quantity taken as sent, not floored
EffectiveQuantity_unclamped(req) == req.quantity

\* max(1, req.quantity)
EffectiveQuantity(req) == max(1, req.quantity)

\* the test on req.priority inverted
ApplyPriority_inverted(req, base_price) ==
    IF ~req.priority THEN TimesMult(base_price, PRIORITY_MULT) ELSE base_price

\* if req.priority: base_price *= PRIORITY_MULT
ApplyPriority(req, base_price) ==
    IF req.priority THEN TimesMult(base_price, PRIORITY_MULT) ELSE base_price

\* the fee charged per unit
ApplyStreaming_per_unit(req, addons) ==
    IF req.streaming THEN addons + STREAMING_FEE * max(1, req.quantity)
    ELSE addons

\* if req.streaming: addons += STREAMING_FEE
ApplyStreaming(req, addons) ==
    IF req.streaming THEN addons + STREAMING_FEE ELSE addons

\* the addons left out of the total
Total_without_addons(base_price, addons) == round2(base_price)

\* total = round(base_price + addons, 2)
Total(base_price, addons) == round2(base_price + addons)

calculate_price(req) ==
    LET service_key == lower(req.service) IN
    IF service_key \notin DOMAIN PRICES
    THEN HTTP400
    ELSE
      LET base_unit == PRICES[service_key]
          base_price == ApplyPriority(req, base_unit * EffectiveQuantity(req))
          addons == ApplyStreaming(req, 0)
          total == Total(base_price, addons)
      IN  PriceResponse(round2(base_price), round2(addons), total)

\* no response yet
Pending == [status |-> 0]

\* the server handles the i-th /api/calculate request
Calculate(i) ==
    /\ resps[i] = Pending
    /\ resps' = [resps EXCEPT ![i] = calculate_price(reqs[i])]
    /\ UNCHANGED <<reqs, priceVars, workerVars, storeVars>>

---------------------------------------------------------------------------
(* The module's globals after import, src/main.py 77-86 *)
GlobalsInit ==
    /\ PRICES = PRICES_INIT
    /\ PRIORITY_MULT = PRIORITY_MULT_INIT
    /\ STREAMING_FEE = STREAMING_FEE_INIT

NoWorkers ==
    /\ wpc = <<>>
    /\ wreq = <<>>
    /\ wloc = <<>>
    /\ wres = <<>>

NoStore ==
    /\ store = <<>>
    /\ storeFault = "none"
    /\ createCalls = 0
    /\ orderReqs = 0
    /\ exchange = [op |-> "none"]

\* two clients, each about to send one /api/calculate request
Init ==
    /\ GlobalsInit
    /\ reqs \in PriceRequest \X PriceRequest
    /\ resps = <<Pending, Pending>>
    /\ NoWorkers
    /\ NoStore

Next == \E i \in 1..2 : Calculate(i)

Spec == Init /\ [][Next]_vars

---------------------------------------------------------------------------
(* calculate_price, statement by statement, in concurrent workers           *)
(* (FastAPI runs a def endpoint in a thread pool).  wloc[w] is the frame    *)
(* of worker w; PRICES, PRIORITY_MULT and STREAMING_FEE are the module's    *)
(* globals, shared by all frames.                                           *)

Workers == 1..NWorkers

ConcRequests ==
    {r \in PriceRequest :
        /\ r.service \in {upper(k_leveling), k_unknown_x}
        /\ r.quantity = MaxQty}

NoLocals == [service_key |-> <<>>, base_unit |-> 0, base_price |-> 0,
             addons |-> 0, total |-> 0]

Goto(w, label) == wpc' = [wpc EXCEPT ![w] = label]
SetLocal(w, name, value) == wloc' = [wloc EXCEPT ![w][name] = value]

\* service_key = req.service.lower()
L90(w) ==
    /\ wpc[w] = "L90"
    /\ SetLocal(w, "service_key", lower(wreq[w].service))
    /\ Goto(w, "L91")
    /\ UNCHANGED <<priceVars, reqs, resps, wreq, wres, storeVars>>

\* if service_key not in PRICES: raise HTTPException(400, ...)
L91(w) ==
    /\ wpc[w] = "L91"
    /\ IF wloc[w].service_key \notin DOMAIN PRICES
       THEN /\ wres' = [wres EXCEPT ![w] = HTTP400]
            /\ Goto(w, "done")
       ELSE /\ Goto(w, "L93")
            /\ UNCHANGED wres
    /\ UNCHANGED <<priceVars, reqs, resps, wreq, wloc, storeVars>>

\* base_unit = PRICES[service_key]
L93(w) ==
    /\ wpc[w] = "L93"
    /\ SetLocal(w, "base_unit", PRICES[wloc[w].service_key])
    /\ Goto(w, "L94")
    /\ UNCHANGED <<priceVars, reqs, resps, wreq, wres, storeVars>>

\* base_price = base_unit * max(1, req.quantity)
L94(w) ==
    /\ wpc[w] = "L94"
    /\ SetLocal(w, "base_price",
                wloc[w].base_unit * EffectiveQuantity(wreq[w]))
    /\ Goto(w, "L95")
    /\ UNCHANGED <<priceVars, reqs, resps, wreq, wres, storeVars>>

\* addons = 0.0
L95(w) ==
    /\ wpc[w] = "L95"
    /\ SetLocal(w, "addons", 0)
    /\ Goto(w, "L96")
    /\ UNCHANGED <<priceVars, reqs, resps, wreq, wres, storeVars>>

\* the surcharge written back into the shared table instead of the local
L96_in_place(w) ==
    /\ wpc[w] = "L96"
    /\ IF wreq[w].priority
       THEN /\ PRICES' = [PRICES EXCEPT ![wloc[w].service_key] =
                              TimesMult(@, PRIORITY_MULT)]
            /\ SetLocal(w, "base_price",
                        TimesMult(PRICES[wloc[w].service_key], PRIORITY_MULT)
                          * EffectiveQuantity(wreq[w]))
       ELSE UNCHANGED <<PRICES, wloc>>
    /\ Goto(w, "L98")
    /\ UNCHANGED <<PRIORITY_MULT, STREAMING_FEE, reqs, resps, wreq, wres,
                   storeVars>>

\* if req.priority: base_price *= PRIORITY_MULT
L96(w) ==
    /\ wpc[w] = "L96"
    /\ SetLocal(w, "base_price", ApplyPriority(wreq[w], wloc[w].base_price))
    /\ Goto(w, "L98")
    /\ UNCHANGED <<priceVars, reqs, resps, wreq, wres, storeVars>>

\* if req.streaming: addons += STREAMING_FEE
L98(w) ==
    /\ wpc[w] = "L98"
    /\ SetLocal(w, "addons", ApplyStreaming(wreq[w], wloc[w].addons))
    /\ Goto(w, "L100")
    /\ UNCHANGED <<priceVars, reqs, resps, wreq, wres, storeVars>>

\* total = round(base_price + addons, 2)
L100(w) ==
    /\ wpc[w] = "L100"
    /\ SetLocal(w, "total", Total(wloc[w].base_price, wloc[w].addons))
    /\ Goto(w, "L101")
    /\ UNCHANGED <<priceVars, reqs, resps, wreq, wres, storeVars>>

\* return PriceResponse(base_price=round(base_price, 2), ...)
L101(w) ==
    /\ wpc[w] = "L101"
    /\ wres' = [wres EXCEPT ![w] =
                   PriceResponse(round2(wloc[w].base_price),
                                 round2(wloc[w].addons), wloc[w].total)]
    /\ Goto(w, "done")
    /\ UNCHANGED <<priceVars, reqs, resps, wreq, wloc, storeVars>>

ConcInit ==
    /\ GlobalsInit
    /\ reqs = <<>>
    /\ resps = <<>>
    /\ wpc = [w \in Workers |-> "L90"]
    /\ wreq \in [Workers -> ConcRequests]
    /\ wloc = [w \in Workers |-> NoLocals]
    /\ wres = [w \in Workers |-> Pending]
    /\ NoStore

ConcNext ==
    \E w \in Workers :
        \/ L90(w)
        \/ L91(w)
        \/ L93(w)
        \/ L94(w)
        \/ L95(w)
        \/ L96(w)
        \/ L98(w)
        \/ L100(w)
        \/ L101(w)

ConcSpec == ConcInit /\ [][ConcNext]_vars

---------------------------------------------------------------------------
(* The document store (database.py: create_document, get_documents).       *)
(* A stored document is [collection, id, doc].                             *)

StoreErrors == {"Database not available", "write concern error"}

\* create_document(collection, data): the id of the new document, or the
\* store's exception
create_document(collection, data) ==
    IF storeFault = "none"
    THEN [ok |-> TRUE, id |-> Len(store) + 1,
          stored |-> [collection |-> collection, id |-> Len(store) + 1,
                      doc |-> data]]
    ELSE [ok |-> FALSE, error |-> storeFault]

\* get_documents(collection, filter_dict, limit) with an empty filter: at
\* most `limit` documents of the collection, each carrying its "_id"
get_documents(collection, limit) ==
    IF storeFault = "none"
    THEN LET docs == SelectSeq(store, LAMBDA d : d.collection = collection)
             n == min(max(limit, 0), Len(docs))
         IN  [ok |-> TRUE,
              docs |-> [i \in 1..n |-> [_id |-> docs[i].id,
                                         doc |-> docs[i].doc]]]
    ELSE [ok |-> FALSE, error |-> storeFault]

---------------------------------------------------------------------------
(* schemas.py *)

\* class Order: two valid instances
Order ==
    {[game |-> "Genshin Impact", service |-> "spiral_abyss", quantity |-> 2,
      priority |-> TRUE, streaming |-> FALSE, region |-> "EU",
      username |-> "uid1", note |-> "None", contact_email |-> "a@b.co",
      contact_discord |-> "None", price_estimate |-> 3000,
      status |-> "pending"],
     [game |-> "HSR", service |-> "farming", quantity |-> 3,
      priority |-> FALSE, streaming |-> TRUE, region |-> "None",
      username |-> "None", note |-> "None", contact_email |-> "None",
      contact_discord |-> "None", price_estimate |-> 2700,
      status |-> "pending"]}

\* class Testimonial (highlights defaults to None)
Testimonial(name, game, rating, comment) ==
    [name |-> name, game |-> game, rating |-> rating, comment |-> comment,
     highlights |-> "None"]

---------------------------------------------------------------------------
(* POST /api/orders *)

\* a failed create_document tried a second time
create_order_retry(order) ==
    LET first == create_document("order", order)
        calls == IF first.ok THEN <<first>>
                 ELSE <<first, create_document("order", order)>>
        last == calls[Len(calls)]
    IN  [calls |-> calls,
         response |->
            IF last.ok
            THEN [status |-> 200,
                  body |-> [id |-> last.id, status |-> "received"]]
            ELSE [status |-> 500, detail |-> last.error]]

\* the handler: the store calls it makes, in order, and its response
create_order(order) ==
    LET created == create_document("order", order)
    IN  [calls |-> <<created>>,
         response |->
            IF created.ok
            THEN [status |-> 200,
                  body |-> [id |-> created.id, status |-> "received"]]
            ELSE [status |-> 500, detail |-> created.error]]

\* the documents the calls of one handler run left in the store
RECURSIVE Stored(_)
Stored(calls) ==
    IF calls = <<>> THEN <<>>
    ELSE (IF Head(calls).ok THEN <<Head(calls).stored>> ELSE <<>>)
           \o Stored(Tail(calls))

CreateOrder(order) ==
    /\ orderReqs < MaxOrders
    /\ LET run == create_order(order) IN
         /\ store' = store \o Stored(run.calls)
         /\ createCalls' = createCalls + Len(run.calls)
         /\ exchange' = [op |-> "create_order", order |-> order,
                         calls |-> run.calls, response |-> run.response]
    /\ orderReqs' = orderReqs + 1
    /\ UNCHANGED <<priceVars, reqs, resps, workerVars, storeFault>>

---------------------------------------------------------------------------
(* GET /api/testimonials *)

\* the three seed testimonials (the star of the first comment written *)
seed ==
    <<Testimonial("Alex R.", "Genshin Impact", 5,
        "Fast, safe, and super friendly. Cleared Abyss 36* in one evening!"),
      Testimonial("Mina K.", "HSR", 5,
        "Efficient farming package. Account felt so much stronger next day."),
      Testimonial("Neo", "Multiple", 5,
        "Professional team. Great communication and fair pricing.")>>

\* seq[:n] of a Python list: a negative n counts from the end
PySliceTo(seq, n) ==
    LET stop == IF n < 0 THEN max(Len(seq) + n, 0) ELSE min(n, Len(seq))
    IN  [i \in 1..stop |-> seq[i]]

list_testimonials(limit) ==
    LET found == get_documents("testimonial", limit) IN
    IF found.ok
    THEN [status |-> 200,
          body |-> [i \in 1..Len(found.docs) |-> found.docs[i].doc]]
    ELSE [status |-> 200, body |-> PySliceTo(seed, limit)]

Limits == (0 - NegLimit)..MaxLimit

ListTestimonials(limit) ==
    /\ exchange' = [op |-> "list_testimonials", limit |-> limit,
                    failed |-> storeFault # "none",
                    response |-> list_testimonials(limit)]
    /\ UNCHANGED <<priceVars, reqs, resps, workerVars, store, storeFault,
                   createCalls, orderReqs>>

\* the store breaks, or recovers
SetFault(fault) ==
    /\ fault # storeFault
    /\ storeFault' = fault
    /\ UNCHANGED <<priceVars, reqs, resps, workerVars, store, createCalls,
                   orderReqs, exchange>>

\* testimonials already in the store when the process starts
StoredTestimonials ==
    <<[collection |-> "testimonial", id |-> 1,
       doc |-> Testimonial("Kai", "Genshin Impact", 4, "Quick.")],
      [collection |-> "testimonial", id |-> 2,
       doc |-> Testimonial("Ro", "None", 5, "Great.")]>>

StoreInit ==
    /\ GlobalsInit
    /\ reqs = <<>>
    /\ resps = <<>>
    /\ NoWorkers
    /\ store \in {SubSeq(StoredTestimonials, 1, n) : n \in 0..2}
    /\ storeFault = "none"
    /\ createCalls = 0
    /\ orderReqs = 0
    /\ exchange = [op |-> "none"]

StoreNext ==
    \/ \E order \in Order : CreateOrder(order)
    \/ \E limit \in Limits : ListTestimonials(limit)
    \/ \E fault \in StoreErrors \cup {"none"} : SetFault(fault)

StoreSpec == StoreInit /\ [][StoreNext]_vars

---------------------------------------------------------------------------
(* Vocabulary of the properties *)

Served(i) == resps[i] # Pending
Ok(i) == resps[i].status = 200

\* two characters equal up to letter case
CasePair(a, b) ==
    a = b \/ \E n \in 1..26 : {a, b} = {UPPERCASE[n], LOWERCASE[n]}

\* two strings that differ only in letter case
SameIgnoringCase(s, t) ==
    Len(s) = Len(t) /\ \A n \in 1..Len(s) : CasePair(s[n], t[n])

\* the key of the rate table that s spells, up to letter case, if any
KnownService(s) == \E k \in DOMAIN PRICES_INIT : SameIgnoringCase(s, k)
KeyOf(s) == CHOOSE k \in DOMAIN PRICES_INIT : SameIgnoringCase(s, k)

Abs(n) == IF n < 0 THEN 0 - n ELSE n

\* c is the integer nearest to n/d, an exact tie going to the even one
IsNearestEven(c, n, d) ==
    /\ 2 * Abs(c * d - n) <= d
    /\ 2 * Abs(c * d - n) = d => c % 2 = 0

\* the doubles x and y are equal or neighbours
DblWithinOneUlp(x, y) ==
    x.exp = y.exp /\ x.hi = y.hi /\ x.lo - y.lo \in -1..1

SameBut(a, b, field) ==
    \A f \in {"service", "quantity", "priority", "streaming"} \ {field} :
        a[f] = b[f]

Request(service, quantity, priority, streaming) ==
    [service |-> service, quantity |-> quantity, priority |-> priority,
     streaming |-> streaming]

---------------------------------------------------------------------------
\* C1: for a service key s of the rate table, a quantity q >= 1 and
\* priority = false, the returned base_price is rate[s] * q rounded to two
\* decimals; leveling with q = 10 and no option returns 35.0, 0.0, 35.0.
C1_BasePriceIsRateTimesQuantity ==
    \A i \in 1..2 :
        LET r == reqs[i] IN
        (Served(i) /\ r.service \in DOMAIN PRICES_INIT /\ r.quantity >= 1
           /\ ~r.priority)
        => /\ Ok(i)
           /\ IsNearestEven(resps[i].base_price,
                            PRICES_INIT[r.service] * r.quantity, 10)
           /\ r = Request(k_leveling, ExampleQty, FALSE, FALSE)
                => resps[i] = [status |-> 200,
                               base_price |-> 350 * ExampleQty,
                               addons |-> 0, total |-> 350 * ExampleQty]

C1_Witness ==
    /\ reqs[1] = Request(k_leveling, ExampleQty, FALSE, FALSE)
    /\ Served(1)
    /\ resps[1].base_price = 3500

---------------------------------------------------------------------------
\* a pair of served requests that differ only in priority
PriorityPair(i, j) ==
    /\ Served(i) /\ Served(j) /\ Ok(i) /\ Ok(j)
    /\ SameBut(reqs[i], reqs[j], "priority")
    /\ ~reqs[i].priority /\ reqs[j].priority

\* C2 as stated: with priority = true the returned base_price is exactly
\* 1.25 times the base_price returned with priority = false.
C2_PriorityIsExactly125Percent ==
    \A i, j \in 1..2 :
        PriorityPair(i, j)
        => 100 * resps[j].base_price = 125 * resps[i].base_price

\* C2 amended: the priority base_price is 1.25 times the non-priority one
\* rounded to two decimals, ties to even; the two are in the exact ratio
\* 1.25 unless the service is leveling and the effective quantity is odd.
C2_PriorityIs125PercentRounded ==
    \A i, j \in 1..2 :
        PriorityPair(i, j)
        => /\ IsNearestEven(resps[j].base_price,
                            125 * resps[i].base_price, 100)
           /\ 100 * resps[j].base_price # 125 * resps[i].base_price
                => /\ KeyOf(reqs[i].service) = k_leveling
                   /\ max(1, reqs[i].quantity) % 2 = 1

C2_Witness ==
    /\ PriorityPair(1, 2)
    /\ reqs[1].service = k_leveling /\ reqs[1].quantity = 3
    /\ resps[1].base_price = 1050 /\ resps[2].base_price = 1312

---------------------------------------------------------------------------
\* C3 as stated: total equals the returned base_price plus the returned
\* addons, the three being doubles rounded to two decimals.
C3_TotalIsSumOfReturnedDoubles ==
    \A i \in 1..2 :
        (Served(i) /\ Ok(i))
        => DblAdd(DblOfCents(resps[i].base_price),
                  DblOfCents(resps[i].addons)) = DblOfCents(resps[i].total)

\* C3 amended: as two-decimal numbers total = base_price + addons; the sum
\* of the two returned doubles is the returned total or its neighbour.
C3_TotalIsSumOfReturnedDecimals ==
    \A i \in 1..2 :
        (Served(i) /\ Ok(i))
        => /\ resps[i].total = resps[i].base_price + resps[i].addons
           /\ DblWithinOneUlp(
                  DblAdd(DblOfCents(resps[i].base_price),
                         DblOfCents(resps[i].addons)),
                  DblOfCents(resps[i].total))

C3_Witness ==
    /\ reqs[1] = Request(k_leveling, 3, TRUE, TRUE)
    /\ Served(1)
    /\ resps[1] = [status |-> 200, base_price |-> 1312, addons |-> 300,
                   total |-> 1612]

---------------------------------------------------------------------------
\* a pair of served requests that differ only in streaming
StreamingPair(i, j) ==
    /\ Served(i) /\ Served(j) /\ Ok(i) /\ Ok(j)
    /\ SameBut(reqs[i], reqs[j], "streaming")
    /\ ~reqs[i].streaming /\ reqs[j].streaming

DblThree == DblOfCents(300)

\* C4 as stated: streaming = true returns the same base_price, and addons
\* and total each exactly 3.0 larger (as doubles) than streaming = false.
C4_StreamingAddsExactlyThree ==
    \A i, j \in 1..2 :
        StreamingPair(i, j)
        => /\ resps[j].base_price = resps[i].base_price
           /\ DblOfCents(resps[j].addons)
                = DblAdd(DblOfCents(resps[i].addons), DblThree)
           /\ DblOfCents(resps[j].total)
                = DblAdd(DblOfCents(resps[i].total), DblThree)

\* C4 amended: streaming = true returns the same base_price, addons exactly
\* 3.0 larger, and a total 3.00 larger as a two-decimal number; the double
\* total(no streaming) + 3.0 is the streaming total or its neighbour.
C4_StreamingAddsThreeDecimal ==
    \A i, j \in 1..2 :
        StreamingPair(i, j)
        => /\ resps[j].base_price = resps[i].base_price
           /\ resps[j].addons = resps[i].addons + 300
           /\ resps[j].total = resps[i].total + 300
           /\ DblOfCents(resps[j].addons)
                = DblAdd(DblOfCents(resps[i].addons), DblThree)
           /\ DblWithinOneUlp(DblAdd(DblOfCents(resps[i].total), DblThree),
                              DblOfCents(resps[j].total))

C4_Witness ==
    /\ StreamingPair(1, 2)
    /\ reqs[1].quantity = MaxQty /\ reqs[1].priority
    /\ resps[2].addons = 300 /\ resps[1].addons = 0

---------------------------------------------------------------------------
\* C5: a quantity q <= 0 returns what quantity 1 returns, and no error for
\* a known service; boss_runs with q = 0 returns 6.0, 0.0, 6.0.
C5_NonPositiveQuantityIsOne ==
    \A i, j \in 1..2 :
        (Served(i) /\ Served(j) /\ SameBut(reqs[i], reqs[j], "quantity")
           /\ reqs[i].quantity = 1 /\ reqs[j].quantity <= 0)
        => /\ resps[j] = resps[i]
           /\ KnownService(reqs[j].service) => Ok(j)
           /\ reqs[j] = Request(k_boss_runs, 0, FALSE, FALSE)
                => resps[j] = [status |-> 200, base_price |-> 600,
                               addons |-> 0, total |-> 600]

C5_Witness ==
    /\ reqs[1] = Request(k_boss_runs, 1, FALSE, FALSE)
    /\ reqs[2] = Request(k_boss_runs, 0, FALSE, FALSE)
    /\ Served(1) /\ Served(2)
    /\ resps[2].total = 600

---------------------------------------------------------------------------
---------------------------------------------------------------------------
\* C7: two requests whose service strings differ only in letter case and
\* whose other fields are equal get the same outcome.
C7_LookupIgnoresCase ==
    \A i, j \in 1..2 :
        (Served(i) /\ Served(j)
           /\ SameIgnoringCase(reqs[i].service, reqs[j].service)
           /\ reqs[i].quantity = reqs[j].quantity
           /\ reqs[i].priority = reqs[j].priority
           /\ reqs[i].streaming = reqs[j].streaming)
        => resps[i] = resps[j]

C7_Witness ==
    /\ Served(1) /\ Served(2)
    /\ reqs[1].service = capitalize(k_exploration)
    /\ reqs[2].service = k_exploration
    /\ reqs[1].quantity = 2 /\ reqs[2].quantity = 2
    /\ reqs[1].priority = reqs[2].priority
    /\ reqs[1].streaming = reqs[2].streaming
    /\ Ok(1) /\ resps[1] = resps[2]

---------------------------------------------------------------------------
\* C10: under any interleaving of concurrent calculate_price calls the rate
\* table and the two modifiers are never modified, and every call returns
\* what it returns when run alone on the same request.
C10_ConcurrentCallsAreIndependent ==
    /\ PRICES = PRICES_INIT
    /\ PRIORITY_MULT = PRIORITY_MULT_INIT
    /\ STREAMING_FEE = STREAMING_FEE_INIT
    /\ \A w \in Workers :
           wpc[w] = "done" => wres[w] = calculate_price(wreq[w])

C10_Witness ==
    /\ wpc[1] = "done" /\ wres[1].status = 200
    /\ wreq[1].priority /\ wreq[1].streaming
    /\ wpc[2] = "L98" /\ wreq[2].priority /\ ~wreq[2].streaming
    /\ wreq[2].service = wreq[1].service

---------------------------------------------------------------------------
\* the first n entries of seq, none when n <= 0
FirstN(seq, n) == [i \in 1..min(n, Len(seq)) |-> seq[i]]

\* C8: when the store query fails, list_testimonials answers 200 with
\* exactly the first min(limit, 3) seed entries in their order, for every
\* limit the endpoint accepts.
C8_SeedTruncatedToLimit ==
    (exchange.op = "list_testimonials" /\ exchange.failed)
    => /\ exchange.response.status = 200
       /\ exchange.response.body = FirstN(seed, min(exchange.limit, 3))

\* C8 for the limits that are not negative, where the code agrees
C8_SeedTruncatedToNonNegativeLimit ==
    (exchange.op = "list_testimonials" /\ exchange.failed
       /\ exchange.limit >= 0)
    => /\ exchange.response.status = 200
       /\ exchange.response.body = FirstN(seed, min(exchange.limit, 3))

C8_Witness ==
    /\ exchange.op = "list_testimonials" /\ exchange.failed
    /\ exchange.limit = 2
    /\ exchange.response.body = <<seed[1], seed[2]>>

---------------------------------------------------------------------------
\* C9: create_order calls the store's create exactly once per request and
\* never retries; on success it returns {id, status: "received"} with the
\* id the store returned, on failure a 500 carrying the store's error text
\* and no id.
C9_OrderCreatedOnceAndReported ==
    /\ createCalls = orderReqs
    /\ exchange.op = "create_order"
       => /\ Len(exchange.calls) = 1
          /\ exchange.calls[1].ok
               => /\ exchange.response
                       = [status |-> 200,
                          body |-> [id |-> exchange.calls[1].id,
                                    status |-> "received"]]
                  /\ store[Len(store)]
                       = [collection |-> "order",
                          id |-> exchange.calls[1].id,
                          doc |-> exchange.order]
          /\ ~exchange.calls[1].ok
               => exchange.response
                    = [status |-> 500, detail |-> exchange.calls[1].error]

C9_Witness ==
    /\ exchange.op = "create_order"
    /\ exchange.response.status = 500
    /\ exchange.response.detail = "Database not available"
    /\ orderReqs = 2 /\ createCalls = 2
    /\ \E n \in 1..Len(store) : store[n].collection = "order"

=============================================================================
